---- MODULE Spec2Model ----
\* A model of the channel-based connection pool of src/channel.go
\* (NewChannelPool, Get, Put, Release and the Check sweeper goroutine).
\*
\* A section that the code runs under c.mu is one atomic action, except the
\* locked section of Release, whose three writes (c.conns, c.factory,
\* c.close) are read elsewhere without the mutex and are a step each, and
\* that of Put, whose decrement of c.curConnCount and call of c.Close are a
\* step each.  Every
\* statement outside the mutex that touches shared state (a channel
\* operation, an unsynchronised read of c.conns / c.curConnCount / c.close /
\* c.factory) is a step of its own, so that the interleavings the Go
\* scheduler can produce are the behaviours of the model.  An unsynchronised
\* read observes the value the field holds at the step that reads it.
\* A call through a nil func value and a send on a closed channel panic; an
\* unrecovered panic ends the Go process, so no action is enabled afterwards.
\* The user's funcs (factory, close, ping) are called outside the mutex, so
\* a call of one of them and the locked section that follows it are two
\* steps.
\* Callers put back only resources they hold, each at most once, and do not
\* use again (Put or Close) a resource they have closed themselves through
\* the pool's Close.
EXTENDS Integers, Sequences, FiniteSets, TLC

\* ------------------------------------------------------------------ bounds
MaxCalls == 3         \* the callers make at most MaxCalls calls in all
MaxTime == 2          \* the clock runs from 0 to MaxTime

Clients == {"a", "b"}    \* the goroutines calling Get / Put / Release
Capacities == {0, 1, 2}  \* the values InitialCap and MaxActive are drawn from
IdleTimeouts == {0, 1}   \* the values IdleTimeout is drawn from
\* CheckInterval and MaxIdle are read by the sweeper alone, which runs only
\* when CheckInterval > 0 and IdleTimeout # 0: they vary where it runs.
CheckIntervals(timeout) == IF timeout = 0 THEN {0} ELSE {0, 1}
MaxIdlesFor(timeout, interval) ==
  IF timeout = 0 \/ interval = 0 THEN {0} ELSE {0, 1}

\* identities of the resources the factory returns: at most one per
\* iteration of the eager fill and one per call of Get
MaxCapacity == CHOOSE m \in Capacities : \A x \in Capacities : x <= m
Res == 1..(MaxCapacity + MaxCalls)
NoConn == 0              \* the nil interface value

VARIABLES
  \* PoolConfig (channel.go 11-33), fixed by Init
  initialCap, maxActive, maxIdle, idleTimeout, checkInterval, ping,
  \* channelPool fields (channel.go 36-47)
  conns,          \* "ch" | "nil": the field c.conns
  factory,        \* "fn" | "nil": the field c.factory
  close,          \* "fn" | "nil": the field c.close
  curConnCount,
  \* the channel made at channel.go 67
  buf,            \* its buffered *idleConn values, oldest first
  chClosed,       \* close(conns) has run
  \* environment
  now,            \* time.Now()
  nextId,         \* resources created by the factory so far
  \* NewChannelPool
  phase,          \* "new" | "open" | "rejected" | "failed"
  \* control state of each calling goroutine
  pc,             \* where it is in its call, "idle" between calls
  wrapConn,       \* the entry its Get received
  held,           \* the resources it got from Get and has not put back
  ret,            \* what its latest call returned
  call,           \* its latest call: operation, argument, and how far
                  \* the calls of Release had got when it began
  \* the Check goroutine
  spc, swConn,
  \* observation
  closeCalls,     \* closeCalls[r]: invocations of the user's close func on r
  calls,          \* calls of Get, Put and Release made so far
  rel,            \* "none", or "begun" once a call of Release has begun,
                  \* or "returned" once one has returned
  panicked        \* "" or the reason of the panic that ended the process

cfgVars  == <<initialCap, maxActive, maxIdle, idleTimeout, checkInterval, ping>>
refVars  == <<conns, factory, close>>
chanVars == <<buf, chClosed>>
poolVars == <<refVars, curConnCount, chanVars>>
envVars  == <<now, nextId, phase>>
cliVars  == <<pc, wrapConn, held, ret, call>>
swVars   == <<spc, swConn>>
obsVars  == <<closeCalls, calls, rel, panicked>>
vars == <<cfgVars, poolVars, envVars, cliVars, swVars, obsVars>>

\* ----------------------------------------------------------------- helpers
NoEntry == [conn |-> NoConn, t |-> 0]

\* &idleConn{conn: conn, t: time.Now()}
IdleConn(conn) == [conn |-> conn, t |-> now]

\* wrapConn.t.Add(timeout).Before(time.Now())
Expired(e, timeout) == e.t + timeout < now

NilRet == [conn |-> NoConn, err |-> "none"]
NoCall == [op |-> "none", arg |-> NoConn, rel |-> "none"]
Calling(op, arg) == [op |-> op, arg |-> arg, rel |-> rel]

Running == phase = "open" /\ panicked = ""

\* c.mu is free: no call of Release is inside its locked section (251-257)
\* and no call of Put is between its decrement and the return of c.Close
\* (215-231), the locked sections that take more than one step.
MuFree ==
  \A c \in Clients :
    pc[c] \notin {"rel_factory", "rel_closeref", "rel_nil_factory",
                  "rel_nil_closeref", "put_close"}

\* A goroutine that is between calls makes its next call.
CanCall(c) == Running /\ pc[c] = "idle" /\ calls < MaxCalls

\* ---------------------------------------------------------- NewChannelPool
\* channel.go 56-58: the capacity settings are validated first.
ValidCapacity(ic, ma) == ~(ic < 0 \/ ma <= 0 \/ ic > ma)

Init ==
  /\ maxActive \in Capacities
  /\ initialCap \in Capacities
  /\ idleTimeout \in IdleTimeouts
  /\ checkInterval \in CheckIntervals(idleTimeout)
  /\ maxIdle \in MaxIdlesFor(idleTimeout, checkInterval)
  /\ ping \in BOOLEAN
  /\ conns = "ch" /\ factory = "fn" /\ close = "fn"
  /\ curConnCount = 0
  /\ buf = <<>> /\ chClosed = FALSE
  /\ now = 0 /\ nextId = 0
  /\ phase = IF ValidCapacity(initialCap, maxActive) THEN "new" ELSE "rejected"
  /\ pc = [c \in Clients |-> "idle"]
  /\ wrapConn = [c \in Clients |-> NoEntry]
  /\ held = [c \in Clients |-> {}]
  /\ ret = [c \in Clients |-> NilRet]
  /\ call = [c \in Clients |-> NoCall]
  /\ spc = "off" /\ swConn = NoEntry
  /\ closeCalls = [r \in Res |-> 0]
  /\ calls = 0
  /\ rel = "none"
  /\ panicked = ""

\* The user's close func runs on r.
Closed(r) == [closeCalls EXCEPT ![r] = @ + 1]

\* An eager fill that fails without releasing what it has created.
NewFillNoRelease ==
  /\ phase = "new" /\ Len(buf) < initialCap
  /\ \E ok \in BOOLEAN :
       IF ok
       THEN /\ nextId' = nextId + 1
            /\ curConnCount' = curConnCount + 1
            /\ buf' = Append(buf, IdleConn(nextId + 1))
            /\ UNCHANGED <<refVars, chClosed, phase, closeCalls>>
       ELSE /\ phase' = "failed"
            /\ UNCHANGED <<refVars, chanVars, closeCalls, nextId, curConnCount>>
  /\ UNCHANGED <<cfgVars, now, cliVars, swVars, calls, rel, panicked>>

\* channel.go 80-88: one iteration of the eager fill.  A factory error runs
\* c.Release() (250-267) on the pool nobody else has yet and fails.
NewFill ==
  /\ phase = "new" /\ Len(buf) < initialCap
  /\ \E ok \in BOOLEAN :
       IF ok
       THEN /\ nextId' = nextId + 1
            /\ curConnCount' = curConnCount + 1
            /\ buf' = Append(buf, IdleConn(nextId + 1))
            /\ UNCHANGED <<refVars, chClosed, phase, closeCalls>>
       ELSE /\ conns' = "nil" /\ factory' = "nil" /\ close' = "nil"
            /\ chClosed' = TRUE
            /\ closeCalls' = [r \in Res |->
                 closeCalls[r] + Cardinality({i \in 1..Len(buf) : buf[i].conn = r})]
            /\ buf' = <<>>
            /\ phase' = "failed"
            /\ UNCHANGED <<nextId, curConnCount>>
  /\ UNCHANGED <<cfgVars, now, cliVars, swVars, calls, rel, panicked>>

\* channel.go 89-93: start the sweeper and return the pool.  Check (118-121)
\* returns at once when idleTimeout == 0.
NewDone ==
  /\ phase = "new" /\ Len(buf) = initialCap
  /\ phase' = "open"
  /\ spc' = IF checkInterval > 0 /\ idleTimeout # 0 THEN "sleep" ELSE "off"
  /\ UNCHANGED <<cfgVars, poolVars, now, nextId, cliVars, swConn, obsVars>>

\* Time passes, during the eager fill of NewChannelPool (time.Now() is read
\* at channel.go 87 in every iteration) as well as on the open pool.  The
\* clock is read only to stamp an idle entry and to test one against
\* idleTimeout; with idleTimeout = 0 no test reads a stamp.
Tick ==
  /\ phase \in {"new", "open"} /\ panicked = ""
  /\ now < MaxTime /\ idleTimeout > 0
  /\ now' = now + 1
  /\ UNCHANGED <<cfgVars, poolVars, nextId, phase, cliVars, swVars, obsVars>>

\* ------------------------------------------------------------------- Close
\* channel.go 234-239 with a non-nil conn: c.close(conn), which panics when
\* c.close is nil.
CloseOk == close = "fn"

\* --------------------------------------------------------------------- Get
\* A Get that does not test c.conns before its loop.
GetCheckUnchecked(c) ==
  /\ CanCall(c)
  /\ calls' = calls + 1
  /\ call' = [call EXCEPT ![c] = Calling("Get", NoConn)]
  /\ ret' = [ret EXCEPT ![c] = NilRet]
  /\ pc' = [pc EXCEPT ![c] = "get_select"]
  /\ UNCHANGED <<cfgVars, poolVars, envVars, wrapConn, held, swVars,
                 closeCalls, rel, panicked>>

\* channel.go 161-163
GetCheck(c) ==
  /\ CanCall(c)
  /\ calls' = calls + 1
  /\ call' = [call EXCEPT ![c] = Calling("Get", NoConn)]
  /\ IF conns = "nil"
     THEN /\ ret' = [ret EXCEPT ![c] = [conn |-> NoConn, err |-> "ErrClosed"]]
          /\ pc' = pc
     ELSE /\ ret' = [ret EXCEPT ![c] = NilRet]
          /\ pc' = [pc EXCEPT ![c] = "get_select"]
  /\ UNCHANGED <<cfgVars, poolVars, envVars, wrapConn, held, swVars,
                 closeCalls, rel, panicked>>

\* channel.go 166-167: the select evaluates the channel operand c.conns.  A
\* receive from a nil channel is never ready, so the default case runs.
GetSelect(c) ==
  /\ Running /\ pc[c] = "get_select"
  /\ pc' = [pc EXCEPT ![c] = IF conns = "nil" THEN "get_incr" ELSE "get_recv"]
  /\ UNCHANGED <<cfgVars, poolVars, envVars, wrapConn, held, ret, call,
                 swVars, obsVars>>

\* A receive that overlooks the idle entries of an open channel.
GetRecvIgnoresIdle(c) ==
  /\ Running /\ pc[c] = "get_recv"
  /\ IF chClosed
     THEN /\ pc' = [pc EXCEPT ![c] = "idle"]
          /\ ret' = [ret EXCEPT ![c] = [conn |-> NoConn, err |-> "ErrClosed"]]
     ELSE /\ pc' = [pc EXCEPT ![c] = "get_incr"]
          /\ ret' = ret
  /\ UNCHANGED <<cfgVars, poolVars, envVars, wrapConn, held, call, swVars,
                 obsVars>>

\* A receive that waits for an entry instead of falling through to the
\* default case.
GetRecvBlocking(c) ==
  /\ Running /\ pc[c] = "get_recv"
  /\ buf # <<>>
  /\ wrapConn' = [wrapConn EXCEPT ![c] = Head(buf)]
  /\ buf' = Tail(buf)
  /\ pc' = [pc EXCEPT ![c] = "get_got"]
  /\ UNCHANGED <<cfgVars, refVars, curConnCount, chClosed, envVars, held,
                 ret, call, swVars, obsVars>>

\* channel.go 167-170, 189: the receive itself.  A buffered value is
\* received even from a closed channel; a closed empty channel yields nil;
\* an open empty channel is not ready and the default case runs.
GetRecv(c) ==
  /\ Running /\ pc[c] = "get_recv"
  /\ IF buf # <<>>
     THEN /\ wrapConn' = [wrapConn EXCEPT ![c] = Head(buf)]
          /\ buf' = Tail(buf)
          /\ pc' = [pc EXCEPT ![c] = "get_got"]
          /\ ret' = ret
     ELSE /\ UNCHANGED <<wrapConn, buf>>
          /\ IF chClosed
             THEN /\ pc' = [pc EXCEPT ![c] = "idle"]
                  /\ ret' = [ret EXCEPT ![c] = [conn |-> NoConn, err |-> "ErrClosed"]]
             ELSE /\ pc' = [pc EXCEPT ![c] = "get_incr"]
                  /\ ret' = ret
  /\ UNCHANGED <<cfgVars, refVars, curConnCount, chClosed, envVars, held,
                 call, swVars, obsVars>>

\* channel.go 181-186: the result of c.Ping on a popped connection when a
\* ping func is configured: nil or an error, as the user's func decides.
PingResults == IF ping THEN {"ok", "err"} ELSE {"ok"}

\* channel.go 171-187: what Get does with the entry it received, up to the
\* return of the user's close func when the entry has expired and to the
\* call of the user's ping func when one is configured.
GetGot(c) ==
  /\ Running /\ pc[c] = "get_got"
  /\ LET e == wrapConn[c] IN
     IF idleTimeout > 0 /\ Expired(e, idleTimeout)
     THEN \* 175: c.Close(conn), outside the mutex
          IF CloseOk
          THEN /\ closeCalls' = Closed(e.conn)
               /\ pc' = [pc EXCEPT ![c] = "get_expired"]
               /\ wrapConn' = [wrapConn EXCEPT ![c] = NoEntry]
               /\ UNCHANGED <<held, ret, panicked>>
          ELSE /\ panicked' = "nil close"
               /\ UNCHANGED <<closeCalls, pc, wrapConn, held, ret>>
     ELSE IF ping
     THEN \* 181-182: the user's ping func is called
          /\ pc' = [pc EXCEPT ![c] = "get_ping"]
          /\ UNCHANGED <<closeCalls, wrapConn, held, ret, panicked>>
     ELSE \* 187: return wrapConn.conn, nil
          /\ held' = [held EXCEPT ![c] = @ \cup {e.conn}]
          /\ ret' = [ret EXCEPT ![c] = [conn |-> e.conn, err |-> "nil"]]
          /\ pc' = [pc EXCEPT ![c] = "idle"]
          /\ wrapConn' = [wrapConn EXCEPT ![c] = NoEntry]
          /\ UNCHANGED <<closeCalls, panicked>>
  /\ UNCHANGED <<cfgVars, poolVars, envVars, call, swVars, calls, rel>>

\* channel.go 182-187: the ping func returns; on an error Get prints and
\* continues, else it returns the connection.
GetPing(c) ==
  /\ Running /\ pc[c] = "get_ping"
  /\ \E p \in PingResults :
       IF p = "err"
       THEN /\ pc' = [pc EXCEPT ![c] = "get_select"]
            /\ UNCHANGED <<held, ret>>
       ELSE /\ held' = [held EXCEPT ![c] = @ \cup {wrapConn[c].conn}]
            /\ ret' = [ret EXCEPT ![c] =
                         [conn |-> wrapConn[c].conn, err |-> "nil"]]
            /\ pc' = [pc EXCEPT ![c] = "idle"]
  /\ wrapConn' = [wrapConn EXCEPT ![c] = NoEntry]
  /\ UNCHANGED <<cfgVars, poolVars, envVars, call, swVars, obsVars>>

\* channel.go 176-177 (105-109): c.decrCurCount() for the expired entry
\* that was closed, then continue
GetExpired(c) ==
  /\ Running /\ pc[c] = "get_expired" /\ MuFree
  /\ curConnCount' = curConnCount - 1
  /\ pc' = [pc EXCEPT ![c] = "get_select"]
  /\ UNCHANGED <<cfgVars, refVars, chanVars, envVars, wrapConn, held, ret,
                 call, swVars, obsVars>>

\* channel.go 190 (112-116): c.incrCurCount()
GetIncr(c) ==
  /\ Running /\ pc[c] = "get_incr" /\ MuFree
  /\ curConnCount' = curConnCount + 1
  /\ pc' = [pc EXCEPT ![c] = "get_cmp"]
  /\ UNCHANGED <<cfgVars, refVars, chanVars, envVars, wrapConn, held, ret,
                 call, swVars, obsVars>>

\* An admission test that lets one resource too many in.
AdmittedOffByOne(count, max) == ~(count > max + 1)

\* channel.go 191: the admission test, read without the mutex
Admitted(count, max) == ~(count > max)

GetCmp(c) ==
  /\ Running /\ pc[c] = "get_cmp"
  /\ pc' = [pc EXCEPT ![c] =
              IF Admitted(curConnCount, maxActive) THEN "get_factory" ELSE "get_decr"]
  /\ UNCHANGED <<cfgVars, poolVars, envVars, wrapConn, held, ret, call,
                 swVars, obsVars>>

\* channel.go 192-196: c.decrCurCount(), sleep 20ms, continue
GetDecr(c) ==
  /\ Running /\ pc[c] = "get_decr" /\ MuFree
  /\ curConnCount' = curConnCount - 1
  /\ pc' = [pc EXCEPT ![c] = "get_select"]
  /\ UNCHANGED <<cfgVars, refVars, chanVars, envVars, wrapConn, held, ret,
                 call, swVars, obsVars>>

\* channel.go 198: c.factory is read and called; a nil c.factory panics.
GetFactory(c) ==
  /\ Running /\ pc[c] = "get_factory"
  /\ IF factory = "nil"
     THEN /\ panicked' = "nil factory"
          /\ pc' = pc
     ELSE /\ panicked' = panicked
          /\ pc' = [pc EXCEPT ![c] = "get_in_factory"]
  /\ UNCHANGED <<cfgVars, poolVars, envVars, wrapConn, held, ret, call,
                 swVars, closeCalls, calls, rel>>

\* channel.go 198-199, 204: the user's factory func returns, with a new
\* resource, which Get returns, or with an error.
GetFactoryReturn(c) ==
  /\ Running /\ pc[c] = "get_in_factory"
  /\ \E ok \in BOOLEAN :
       IF ok
       THEN /\ nextId' = nextId + 1
            /\ held' = [held EXCEPT ![c] = @ \cup {nextId + 1}]
            /\ ret' = [ret EXCEPT ![c] = [conn |-> nextId + 1, err |-> "nil"]]
            /\ pc' = [pc EXCEPT ![c] = "idle"]
       ELSE /\ pc' = [pc EXCEPT ![c] = "get_factory_err"]
            /\ UNCHANGED <<nextId, held, ret>>
  /\ UNCHANGED <<cfgVars, poolVars, now, phase, wrapConn, call, swVars,
                 obsVars>>

\* channel.go 200-201: c.decrCurCount(); return nil, err
GetFactoryErr(c) ==
  /\ Running /\ pc[c] = "get_factory_err" /\ MuFree
  /\ curConnCount' = curConnCount - 1
  /\ ret' = [ret EXCEPT ![c] = [conn |-> NoConn, err |-> "factory"]]
  /\ pc' = [pc EXCEPT ![c] = "idle"]
  /\ UNCHANGED <<cfgVars, refVars, chanVars, envVars, wrapConn, held, call,
                 swVars, obsVars>>

Get(c) ==
  \/ GetCheck(c) \/ GetSelect(c) \/ GetRecv(c) \/ GetGot(c) \/ GetPing(c)
  \/ GetExpired(c)
  \/ GetIncr(c) \/ GetCmp(c) \/ GetDecr(c)
  \/ GetFactory(c) \/ GetFactoryReturn(c) \/ GetFactoryErr(c)

\* --------------------------------------------------------------------- Put
\* A Put that counts a nil connection as one given back.
PutNilCounted(c) ==
  /\ CanCall(c)
  /\ calls' = calls + 1
  /\ call' = [call EXCEPT ![c] = Calling("Put", NoConn)]
  /\ ret' = [ret EXCEPT ![c] = [conn |-> NoConn, err |-> "nil conn"]]
  /\ curConnCount' = curConnCount - 1
  /\ UNCHANGED <<cfgVars, refVars, chanVars, envVars, pc, wrapConn, held,
                 swVars, closeCalls, rel, panicked>>

\* channel.go 211-213: a nil connection is rejected before the mutex.
PutNil(c) ==
  /\ CanCall(c)
  /\ calls' = calls + 1
  /\ call' = [call EXCEPT ![c] = Calling("Put", NoConn)]
  /\ ret' = [ret EXCEPT ![c] = [conn |-> NoConn, err |-> "nil conn"]]
  /\ UNCHANGED <<cfgVars, poolVars, envVars, pc, wrapConn, held, swVars,
                 closeCalls, rel, panicked>>

\* channel.go 215-219 and 223-228, under c.mu: a caller puts back a resource
\* r it holds.  The send succeeds when the channel has room (its capacity is
\* MaxActive, channel.go 67); on a nil c.conns or a full buffer the counter
\* is decremented and the call goes on, still holding c.mu, to c.Close(conn).
Put(c, r) ==
  /\ CanCall(c) /\ MuFree /\ r \in held[c] /\ closeCalls[r] = 0
  /\ calls' = calls + 1
  /\ call' = [call EXCEPT ![c] = Calling("Put", r)]
  /\ IF conns # "nil" /\ Len(buf) < maxActive
     THEN \* 224-225
          /\ buf' = Append(buf, IdleConn(r))
          /\ held' = [held EXCEPT ![c] = @ \ {r}]
          /\ ret' = [ret EXCEPT ![c] = [conn |-> NoConn, err |-> "nil"]]
          /\ UNCHANGED <<curConnCount, pc>>
     ELSE \* 218-219 (c.conns is nil), 226-228 (the buffer is full)
          /\ curConnCount' = curConnCount - 1
          /\ pc' = [pc EXCEPT ![c] = "put_close"]
          /\ ret' = [ret EXCEPT ![c] = NilRet]
          /\ UNCHANGED <<buf, held>>
  /\ UNCHANGED <<cfgVars, refVars, chClosed, envVars, wrapConn, swVars,
                 closeCalls, rel, panicked>>

\* channel.go 220 and 229 (234-239): return c.Close(conn) for the resource
\* of the call; c.close(conn) runs, or panics when c.close is nil.  The
\* deferred Unlock follows.
PutClose(c) ==
  /\ Running /\ pc[c] = "put_close"
  /\ IF CloseOk
     THEN /\ closeCalls' = Closed(call[c].arg)
          /\ held' = [held EXCEPT ![c] = @ \ {call[c].arg}]
          /\ ret' = [ret EXCEPT ![c] = [conn |-> NoConn, err |-> "close"]]
          /\ pc' = [pc EXCEPT ![c] = "idle"]
          /\ panicked' = panicked
     ELSE /\ panicked' = "nil close"
          /\ UNCHANGED <<closeCalls, held, ret, pc>>
  /\ UNCHANGED <<cfgVars, poolVars, envVars, wrapConn, call, swVars, calls,
                 rel>>

\* ------------------------------------------------- Close, called directly
\* channel.go 235-237: Close(nil) returns an error.
CloseNil(c) ==
  /\ CanCall(c)
  /\ calls' = calls + 1
  /\ call' = [call EXCEPT ![c] = Calling("Close", NoConn)]
  /\ ret' = [ret EXCEPT ![c] = [conn |-> NoConn, err |-> "nil conn"]]
  /\ UNCHANGED <<cfgVars, poolVars, envVars, pc, wrapConn, held, swVars,
                 closeCalls, rel, panicked>>

\* channel.go 234-239: a caller closes a resource r it holds through the
\* pool.  c.close(conn) runs, or panics when c.close is nil; nothing else
\* of the pool changes, curConnCount included.
Close(c, r) ==
  /\ CanCall(c) /\ r \in held[c] /\ closeCalls[r] = 0
  /\ calls' = calls + 1
  /\ call' = [call EXCEPT ![c] = Calling("Close", r)]
  /\ IF CloseOk
     THEN /\ closeCalls' = Closed(r)
          /\ ret' = [ret EXCEPT ![c] = [conn |-> NoConn, err |-> "close"]]
          /\ panicked' = panicked
     ELSE /\ panicked' = "nil close"
          /\ UNCHANGED <<closeCalls, ret>>
  /\ UNCHANGED <<cfgVars, poolVars, envVars, pc, wrapConn, held, swVars,
                 rel>>

\* ----------------------------------------------------------------- Release
\* A Release that leaves c.conns in place.
ReleaseSwapKeepsConns(c) ==
  /\ CanCall(c) /\ MuFree
  /\ calls' = calls + 1
  /\ call' = [call EXCEPT ![c] = Calling("Release", NoConn)]
  /\ pc' = [pc EXCEPT ![c] =
              IF conns = "nil" THEN "rel_nil_factory" ELSE "rel_factory"]
  /\ rel' = IF conns # "nil" /\ rel = "none" THEN "begun" ELSE rel
  /\ ret' = [ret EXCEPT ![c] = NilRet]
  /\ UNCHANGED <<cfgVars, poolVars, envVars, wrapConn, held, swVars,
                 closeCalls, panicked>>

\* channel.go 251-253: Lock; conns := c.conns; c.conns = nil.  The value
\* read into the local conns, nil or not, is kept in the position of the
\* call.
ReleaseSwap(c) ==
  /\ CanCall(c) /\ MuFree
  /\ calls' = calls + 1
  /\ call' = [call EXCEPT ![c] = Calling("Release", NoConn)]
  /\ conns' = "nil"
  /\ pc' = [pc EXCEPT ![c] =
              IF conns = "nil" THEN "rel_nil_factory" ELSE "rel_factory"]
  /\ rel' = IF conns # "nil" /\ rel = "none" THEN "begun" ELSE rel
  /\ ret' = [ret EXCEPT ![c] = NilRet]
  /\ UNCHANGED <<cfgVars, factory, close, curConnCount, chanVars, envVars,
                 wrapConn, held, swVars, closeCalls, panicked>>

\* channel.go 254: c.factory = nil, still under c.mu
ReleaseFactory(c) ==
  /\ Running /\ pc[c] \in {"rel_factory", "rel_nil_factory"}
  /\ factory' = "nil"
  /\ pc' = [pc EXCEPT ![c] =
              IF pc[c] = "rel_factory" THEN "rel_closeref" ELSE "rel_nil_closeref"]
  /\ UNCHANGED <<cfgVars, conns, close, curConnCount, chanVars, envVars,
                 wrapConn, held, ret, call, swVars, obsVars>>

\* channel.go 255-261: closeFun := c.close; c.close = nil; Unlock; a call
\* whose local conns is nil returns.
ReleaseCloseRef(c) ==
  /\ Running /\ pc[c] \in {"rel_closeref", "rel_nil_closeref"}
  /\ close' = "nil"
  /\ IF pc[c] = "rel_closeref"
     THEN /\ pc' = [pc EXCEPT ![c] = "rel_close"]
          /\ rel' = rel
     ELSE /\ pc' = [pc EXCEPT ![c] = "idle"]
          /\ rel' = "returned"
  /\ UNCHANGED <<cfgVars, conns, factory, curConnCount, chanVars, envVars,
                 wrapConn, held, ret, call, swVars, closeCalls, calls,
                 panicked>>

\* channel.go 263: close(conns)
ReleaseClose(c) ==
  /\ Running /\ pc[c] = "rel_close"
  /\ chClosed' = TRUE
  /\ pc' = [pc EXCEPT ![c] = "rel_drain"]
  /\ UNCHANGED <<cfgVars, refVars, curConnCount, buf, envVars, wrapConn,
                 held, ret, call, swVars, obsVars>>

\* channel.go 264: range over the closed channel receives the next entry;
\* the loop ends, and Release returns, when the buffer is empty.
ReleaseDrain(c) ==
  /\ Running /\ pc[c] = "rel_drain"
  /\ IF buf # <<>>
     THEN /\ wrapConn' = [wrapConn EXCEPT ![c] = Head(buf)]
          /\ buf' = Tail(buf)
          /\ pc' = [pc EXCEPT ![c] = "rel_closefun"]
          /\ rel' = rel
     ELSE /\ pc' = [pc EXCEPT ![c] = "idle"]
          /\ rel' = "returned"
          /\ UNCHANGED <<wrapConn, buf>>
  /\ UNCHANGED <<cfgVars, refVars, curConnCount, chClosed, envVars, held,
                 ret, call, swVars, closeCalls, calls, panicked>>

\* channel.go 265: closeFun(wrapConn.conn), the close func captured before
\* the swap
ReleaseCloseFun(c) ==
  /\ Running /\ pc[c] = "rel_closefun"
  /\ closeCalls' = Closed(wrapConn[c].conn)
  /\ wrapConn' = [wrapConn EXCEPT ![c] = NoEntry]
  /\ pc' = [pc EXCEPT ![c] = "rel_drain"]
  /\ UNCHANGED <<cfgVars, poolVars, envVars, held, ret, call, swVars,
                 calls, rel, panicked>>

Release(c) ==
  \/ ReleaseSwap(c) \/ ReleaseFactory(c) \/ ReleaseCloseRef(c)
  \/ ReleaseClose(c) \/ ReleaseDrain(c) \/ ReleaseCloseFun(c)

\* ------------------------------------------------------------------- Check
\* channel.go 153-155 and 124-126: after the sleep a pass starts; it returns
\* at once when c.conns is nil.
SweepStart ==
  /\ Running /\ spc = "sleep"
  /\ spc' = IF conns = "nil" THEN "sleep" ELSE "sw_select"
  /\ UNCHANGED <<cfgVars, poolVars, envVars, cliVars, swConn, obsVars>>

\* channel.go 129-130: the select evaluates c.conns; on a nil channel the
\* default case (147-148) ends the pass.
SweepSelect ==
  /\ Running /\ spc = "sw_select"
  /\ spc' = IF conns = "nil" THEN "sleep" ELSE "sw_recv"
  /\ UNCHANGED <<cfgVars, poolVars, envVars, cliVars, swConn, obsVars>>

\* channel.go 130-133, 147-148: the receive.  nil from a closed channel
\* breaks out of the select and the loop goes round again.
SweepRecv ==
  /\ Running /\ spc = "sw_recv"
  /\ IF buf # <<>>
     THEN /\ swConn' = Head(buf) /\ buf' = Tail(buf) /\ spc' = "sw_judge"
     ELSE /\ UNCHANGED <<swConn, buf>>
          /\ spc' = IF chClosed THEN "sw_select" ELSE "sleep"
  /\ UNCHANGED <<cfgVars, refVars, curConnCount, chClosed, envVars, cliVars,
                 obsVars>>

\* An eviction test that spares the last resource of the pool.
KillStatsSparesLast(e, count) == count > maxIdle + 1 /\ Expired(e, idleTimeout)

\* channel.go 136-138: the eviction test
KillStats(e, count) == count > maxIdle /\ Expired(e, idleTimeout)

\* A pass that sends an entry back after it has closed it.
SweepJudgeRequeuesEvicted ==
  /\ Running /\ spc = "sw_judge" /\ MuFree
  /\ IF KillStats(swConn, curConnCount)
     THEN IF CloseOk
          THEN /\ closeCalls' = Closed(swConn.conn)
               /\ curConnCount' = curConnCount - 1
               /\ spc' = "sw_push"
               /\ UNCHANGED <<swConn, panicked>>
          ELSE /\ panicked' = "nil close"
               /\ UNCHANGED <<closeCalls, curConnCount, swConn, spc>>
     ELSE /\ spc' = "sw_push"
          /\ UNCHANGED <<closeCalls, curConnCount, swConn, panicked>>
  /\ UNCHANGED <<cfgVars, refVars, chanVars, envVars, cliVars, calls, rel>>

\* channel.go 135-145, under c.mu
SweepJudge ==
  /\ Running /\ spc = "sw_judge" /\ MuFree
  /\ IF KillStats(swConn, curConnCount)
     THEN IF CloseOk
          THEN /\ closeCalls' = Closed(swConn.conn)
               /\ curConnCount' = curConnCount - 1
               /\ swConn' = NoEntry
               /\ spc' = "sw_select"
               /\ panicked' = panicked
          ELSE /\ panicked' = "nil close"
               /\ UNCHANGED <<closeCalls, curConnCount, swConn, spc>>
     ELSE /\ spc' = "sw_push"
          /\ UNCHANGED <<closeCalls, curConnCount, swConn, panicked>>
  /\ UNCHANGED <<cfgVars, refVars, chanVars, envVars, cliVars, calls, rel>>

\* channel.go 146: the send statement evaluates its channel operand c.conns
SweepPush ==
  /\ Running /\ spc = "sw_push"
  /\ spc' = IF conns = "nil" THEN "sw_blocked" ELSE "sw_send"
  /\ UNCHANGED <<cfgVars, poolVars, envVars, cliVars, swConn, obsVars>>

\* channel.go 146: the send.  It panics on a closed channel, waits while the
\* buffer is full (and for ever in "sw_blocked", on a nil channel).
SweepSend ==
  /\ Running /\ spc = "sw_send"
  /\ IF chClosed
     THEN /\ panicked' = "send on closed channel"
          /\ UNCHANGED <<buf, swConn, spc>>
     ELSE /\ Len(buf) < maxActive
          /\ buf' = Append(buf, swConn)
          /\ swConn' = NoEntry
          /\ spc' = "sw_select"
          /\ panicked' = panicked
  /\ UNCHANGED <<cfgVars, refVars, curConnCount, chClosed, envVars, cliVars,
                 closeCalls, calls, rel>>

Check ==
  \/ SweepStart \/ SweepSelect \/ SweepRecv \/ SweepJudge \/ SweepPush
  \/ SweepSend

\* ----------------------------------------------------------- specification
Next ==
  \/ NewFill \/ NewDone \/ Tick
  \/ \E c \in Clients : Get(c) \/ PutNil(c) \/ CloseNil(c) \/ Release(c)
  \/ \E c \in Clients : \E r \in Res : Put(c, r) \/ Close(c, r)
  \/ \E c \in Clients : PutClose(c)
  \/ Check

Spec == Init /\ [][Next]_vars

\* ------------------------------------------------------- state functions
Created == 1..nextId
\* created by the factory and not yet passed to the close func
Live == {r \in Created : closeCalls[r] = 0}
Idle == {buf[i].conn : i \in 1..Len(buf)}
Held == UNION {held[c] : c \in Clients}
\* resources a Get, a Release or the sweeper has received and not yet
\* disposed of
InFlight == ({wrapConn[c].conn : c \in Clients} \cup {swConn.conn}) \ {NoConn}
Open == phase = "open" /\ conns = "ch"
\* no Get, Put, Release or sweep pass is in progress
Quiescent == (\A c \in Clients : pc[c] = "idle") /\ spc \in {"off", "sleep"}
\* the Gets between their speculative increment (190) and the decrement
\* that takes it back (192)
Speculating == {c \in Clients : pc[c] \in {"get_cmp", "get_decr"}}

\* --------------------------------------------------------------------- C1
\* C1 as stated: in every reachable state, intermediate states of a Get
\* included, 0 <= curConnCount <= maxActive.
C1_CountWithinMaxActive == 0 <= curConnCount /\ curConnCount <= maxActive

\* C1 as amended: curConnCount never goes negative and exceeds maxActive by
\* at most the number of Gets that have incremented it speculatively and
\* not yet taken the increment back; with no such Get it is within
\* 0..maxActive.
C1_CountWithinSpeculation ==
  /\ 0 <= curConnCount
  /\ curConnCount <= maxActive + Cardinality(Speculating)

\* Two Gets have both incremented the full counter of an open pool.
C1_Witness ==
  /\ Open /\ Cardinality(Speculating) = 2
  /\ curConnCount = maxActive + 2

\* --------------------------------------------------------------------- C2
\* C2: on an open pool the number of live resources (created and not yet
\* closed, wherever they are) never exceeds maxActive.
C2_LiveWithinMaxActive == Open => Cardinality(Live) <= maxActive

\* maxActive resources are live and a Get has just been refused a new one.
C2_Witness ==
  /\ Open /\ Cardinality(Live) = maxActive
  /\ \E c \in Clients : pc[c] = "get_decr"

\* --------------------------------------------------------------------- C3
\* C3: on an open pool with no operation in progress, curConnCount is the
\* number of idle resources plus the number of resources held by callers.
C3_CountIsIdlePlusHeld ==
  (Open /\ Quiescent /\ panicked = "") =>
     curConnCount = Len(buf) + Cardinality(Held)

\* ------------------------------------------------- callers under fairness
\* The pool without the sweeper (CheckInterval = 0) and without a call of
\* Release: callers only Get and Put.
\* With no Release c.conns is never nil and, the resources alive being at
\* most maxActive (C2), the buffer is never full when a held resource is put
\* back: every Put sends (224-225) and none reaches PutClose.
InitCallers == Init /\ checkInterval = 0
InitCallersNoPing == InitCallers /\ ~ping

NextCallers ==
  \/ NewFill \/ NewDone \/ Tick
  \/ \E c \in Clients : Get(c)
  \/ \E c \in Clients : \E r \in Res : Put(c, r)

\* The steps of a Get that has begun: the goroutine is runnable (the sleep
\* of channel.go 194 ends), so the scheduler runs it again.
GetStep(c) ==
  \/ GetSelect(c) \/ GetRecv(c) \/ GetGot(c) \/ GetPing(c) \/ GetExpired(c)
  \/ GetIncr(c) \/ GetCmp(c) \/ GetDecr(c)
  \/ GetFactory(c) \/ GetFactoryReturn(c) \/ GetFactoryErr(c)

Fairness == \A c \in Clients : WF_vars(GetStep(c))

FairSpec == InitCallers /\ [][NextCallers]_vars /\ Fairness
FairSpecNoPing == InitCallersNoPing /\ [][NextCallers]_vars /\ Fairness

InGet(c) == pc[c] \in {"get_select", "get_recv", "get_got", "get_ping",
                       "get_expired",
                       "get_incr", "get_cmp", "get_decr", "get_factory",
                       "get_in_factory", "get_factory_err"}

\* --------------------------------------------------------------------- C4
\* C4, its second half: once a resource has been put back into the idle
\* buffer, a Get that is waiting with no competing Get eventually returns
\* (read generously: returns at all, until a competing Get begins).
C4_WaitingGetReturnsAfterPut ==
  \A c \in Clients :
    (InGet(c) /\ buf # <<>> /\ \A d \in Clients \ {c} : pc[d] = "idle")
      ~> (~InGet(c) \/ \E d \in Clients \ {c} : InGet(d))

\* C4, its first half: while maxActive resources are borrowed and the idle
\* buffer is empty, a Get in progress on the open pool does not return.
C4_ExhaustedGetWaits ==
  [][\A c \in Clients :
       (Open /\ InGet(c) /\ Cardinality(Held) = maxActive /\ buf = <<>>)
          => InGet(c)']_vars

\* --------------------------------------------------------------------- C5
\* C5 as stated: every call of Get eventually returns.
C5_GetAlwaysReturns == \A c \in Clients : InGet(c) ~> ~InGet(c)

\* C5 as amended: every call of Get eventually returns or finds the pool
\* full again (curConnCount above maxActive after its own increment), in
\* which case it takes the increment back, sleeps and retries: it retries
\* for as long as the pool stays full and never blocks anywhere else.
C5_GetReturnsOrRetriesFull ==
  \A c \in Clients : InGet(c) ~> (~InGet(c) \/ pc[c] = "get_decr")

\* A Get has been refused on a pool whose maxActive resources are all
\* borrowed, after all the calls the callers make.
C5_Witness ==
  /\ \E c \in Clients : pc[c] = "get_decr"
  /\ Cardinality(Held) = maxActive /\ buf = <<>>
  /\ calls = MaxCalls

\* --------------------------------------------------------------------- C6
\* C6: Get reuses an idle resource instead of creating one.  (1) a receive
\* that finds the buffer non-empty takes its oldest entry and invokes no
\* factory; (2) an entry Get returns is returned as the identical instance,
\* was not older than idleTimeout when Get tested it, and no factory ran; (3) Get goes on to
\* the factory only from a receive that found the buffer empty (or the
\* channel nil); (4) the factory runs only there; (5) Put stores the very
\* instance it was given.
C6_IdleIsReused ==
  [][\A c \in Clients :
       /\ (pc[c] = "get_recv" /\ pc'[c] # "get_recv" /\ buf # <<>>) =>
            (pc'[c] = "get_got" /\ wrapConn'[c] = Head(buf) /\ nextId' = nextId)
       /\ (pc[c] \in {"get_got", "get_ping"} /\ pc'[c] = "idle") =>
            /\ ret'[c] = [conn |-> wrapConn[c].conn, err |-> "nil"]
            /\ held'[c] = held[c] \cup {wrapConn[c].conn}
            /\ nextId' = nextId
       /\ (pc[c] = "get_got" /\ pc'[c] \in {"get_ping", "idle"}) =>
            ~(idleTimeout > 0 /\ Expired(wrapConn[c], idleTimeout))
       /\ (pc[c] # "get_incr" /\ pc'[c] = "get_incr") =>
            (buf = <<>> \/ conns = "nil")
       /\ (phase = "open" /\ nextId' # nextId /\ held'[c] # held[c]) =>
            (pc[c] = "get_in_factory" /\ held'[c] = held[c] \cup {nextId'})
       /\ (call'[c] # call[c] /\ call'[c].op = "Put" /\ buf' # buf) =>
            buf' = Append(buf, [conn |-> call'[c].arg, t |-> now])
  ]_vars

\* The round trip: one caller got resource 1 from the factory and put it
\* back, and the other's Get returned resource 1 with no second factory call.
C6_Witness ==
  \E c \in Clients : \E d \in Clients \ {c} :
    /\ call[d] = [op |-> "Put", arg |-> 1, rel |-> "none"]
    /\ call[c].op = "Get" /\ pc[c] = "idle"
    /\ ret[c] = [conn |-> 1, err |-> "nil"] /\ held[c] = {1}
    /\ initialCap = 0 /\ nextId = 1 /\ Open

\* --------------------------------------------------------------------- C7
\* C7: a Get that begins after a call of Release has returned returns
\* ErrClosed at once: it never enters the retry loop, so it returns no
\* resource and invokes no factory.
C7_GetAfterReleaseIsErrClosed ==
  \A c \in Clients :
    (call[c].op = "Get" /\ call[c].rel = "returned") =>
       /\ pc[c] = "idle"
       /\ ret[c] = [conn |-> NoConn, err |-> "ErrClosed"]

\* A Get that began after Release returned has returned ErrClosed.
C7_Witness ==
  \E c \in Clients :
    /\ call[c] = [op |-> "Get", arg |-> NoConn, rel |-> "returned"]
    /\ ret[c].err = "ErrClosed"

\* --------------------------------------------------------------------- C8
\* C8: Release is idempotent.  A call of Release that begins after another
\* has begun returns straight after its locked section: it never closes
\* the channel or drains it.  The one call that drains returns with the buffer empty;
\* an entry still in the buffer has not been closed yet, and no resource is
\* ever closed twice, so each entry is closed exactly once, by that call.
C8_ReleaseIdempotent ==
  /\ \A c \in Clients :
       (call[c].op = "Release" /\ call[c].rel # "none") =>
          pc[c] \in {"idle", "rel_nil_factory", "rel_nil_closeref"}
  /\ \A c \in Clients :
       (call[c].op = "Release" /\ call[c].rel = "none" /\ pc[c] = "idle") =>
          (buf = <<>> /\ chClosed /\ conns = "nil")
  /\ \A r \in Idle : closeCalls[r] = 0
  /\ \A r \in Res : closeCalls[r] <= 1

\* Both callers called Release concurrently on a pool with two idle
\* resources and no sweeper; both calls have returned and each resource was
\* closed once, by the drain.
C8_Witness ==
  /\ \A c \in Clients : call[c].op = "Release" /\ pc[c] = "idle"
  /\ \E c \in Clients : call[c].rel = "begun"
  /\ initialCap = 2 /\ calls = 2 /\ checkInterval = 0
  /\ closeCalls[1] = 1 /\ closeCalls[2] = 1

\* --------------------------------------------------------------------- C9
\* C9: a Put of a resource on a pool whose Release has returned closes the
\* resource exactly once and returns the close func's result; it does not
\* panic on a nil close func.
C9_PutAfterReleaseCloses ==
  \A c \in Clients :
    (call[c].op = "Put" /\ call[c].arg # NoConn /\ call[c].rel = "returned") =>
       /\ panicked = ""
       /\ pc[c] = "idle" =>
            /\ closeCalls[call[c].arg] = 1
            /\ call[c].arg \notin held[c]
            /\ ret[c].err = "close"

\* -------------------------------------------------------------------- C10
\* C10: when Get drops an entry that is not expired, that is, when its Ping
\* failed, it closes the resource (and then decrements curConnCount)
\* before it retries: the step that drops the entry runs the close func on
\* it.
C10_FailedPingClosesAndDecrements ==
  [][\A c \in Clients :
       (pc[c] = "get_ping" /\ pc'[c] = "get_select") =>
          closeCalls' = Closed(wrapConn[c].conn)
  ]_vars

\* -------------------------------------------------------------------- C11
\* C11: whatever the interleaving of Get, Put, sweep passes and Release, the
\* user's close func is invoked at most once on any resource the factory
\* has returned.
C11_ClosedAtMostOnce == \A r \in Created : closeCalls[r] <= 1

\* Release has returned on a pool with a sweeper: one resource was closed
\* with the counter decremented for it (by a sweep pass, an expiry in Get or
\* a full buffer), another by the drain of Release, each once.
C11_Witness ==
  /\ rel = "returned" /\ checkInterval > 0
  /\ nextId = 2 /\ curConnCount = 1
  /\ closeCalls[1] = 1 /\ closeCalls[2] = 1

\* --------------------------------------------- the sweeper under fairness
\* The pool with its sweeper running (CheckInterval > 0, IdleTimeout > 0)
\* beside one calling goroutine that only Gets and Puts: no call of Release.
\* As under FairSpec every Put sends and none reaches PutClose.
InitSweeping == Init /\ checkInterval > 0
SweepCallers == {"a"}

NextSweeping ==
  \/ NewFill \/ NewDone \/ Tick
  \/ \E c \in SweepCallers : Get(c)
  \/ \E c \in SweepCallers : \E r \in Res : Put(c, r)
  \/ Check

\* NewChannelPool is straight-line code of the goroutine that calls it and
\* runs to its return (channel.go 55-94).
Construct == NewFill \/ NewDone

\* The Check goroutine is runnable whenever a step of it is enabled (its
\* sleep of channel.go 154 ends), so the scheduler runs it again.
SweepSpec ==
  InitSweeping /\ [][NextSweeping]_vars /\ WF_vars(Construct) /\ WF_vars(Check)

\* the entries of the idle buffer that are older than idleTimeout
IdleExpired == {buf[i].conn : i \in {j \in 1..Len(buf) : Expired(buf[j], idleTimeout)}}
\* the resources a Get has received from the buffer and not yet disposed of
Reacquired == {wrapConn[c].conn : c \in Clients} \ {NoConn}

\* -------------------------------------------------------------------- C12
\* C12: with the sweeper running and maxIdle = 0, a resource that sits in
\* the idle buffer older than idleTimeout is eventually out of the buffer
\* and closed (once), unless a Get takes it first; and the step of a sweep
\* pass that closes an entry closes that entry alone, decrements
\* curConnCount by exactly one and does not send the entry back.
C12_ExpiredIdleIsSwept ==
  /\ \A r \in Res :
       (maxIdle = 0 /\ r \in IdleExpired)
          ~> (r \notin Idle /\ (closeCalls[r] = 1 \/ r \in Reacquired))
  /\ [][(spc = "sw_judge" /\ swConn' # swConn) =>
          /\ closeCalls' = Closed(swConn.conn)
          /\ curConnCount' = curConnCount - 1
          /\ buf' = buf /\ swConn.conn \notin Idle
          /\ spc' = "sw_select"]_vars

\* Scenario: the only resource was created by a Get at time 0 and put back;
\* no other call was made; the sweeper has closed it, the counter is 0 and
\* the buffer is empty.
C12_Witness ==
  /\ Open /\ maxIdle = 0 /\ initialCap = 0 /\ calls = 2
  /\ \E c \in Clients : call[c] = [op |-> "Put", arg |-> 1, rel |-> "none"]
  /\ closeCalls[1] = 1 /\ curConnCount = 0 /\ buf = <<>>
  /\ spc = "sleep"

\* -------------------------------------------------------------------- C13
\* C13: a call Put(nil) returns an error and changes nothing of the pool:
\* curConnCount, the idle buffer, the channel's closed flag and the
\* references of the pool are as before, no close func runs and nothing
\* panics, whether the pool is open or shut down.
C13_PutNilChangesNothing ==
  [][\A c \in Clients :
       (call'[c] # call[c] /\ call'[c].op = "Put" /\ call'[c].arg = NoConn) =>
          /\ ret'[c] = [conn |-> NoConn, err |-> "nil conn"]
          /\ UNCHANGED <<curConnCount, buf, chClosed, conns, factory, close>>
          /\ UNCHANGED <<closeCalls, panicked, held, nextId>>
  ]_vars

\* Put(nil) has returned its error on an open pool that has an idle entry
\* and a borrowed resource.
C13_Witness ==
  \E c \in Clients :
    /\ call[c].op = "Put" /\ call[c].arg = NoConn
    /\ ret[c] = [conn |-> NoConn, err |-> "nil conn"]
    /\ Open /\ buf # <<>> /\ Held # {} /\ curConnCount = 2

\* -------------------------------------------------------------------- C14
\* C14: when the factory fails during the eager fill, NewChannelPool returns
\* no pool (no sweeper is started, no call can be made), every resource
\* created before the failure has been closed exactly once and no other,
\* fewer than initialCap resources were created, and nothing happens
\* afterwards: the factory is not invoked again.
C14_FailedFillReleases ==
  /\ [](phase = "failed" =>
          /\ nextId < initialCap
          /\ \A r \in Res : closeCalls[r] = IF r \in Created THEN 1 ELSE 0
          /\ buf = <<>> /\ chClosed
          /\ spc = "off" /\ calls = 0)
  /\ [][phase # "failed"]_vars

\* The factory failed on the second of two eager invocations; the first
\* resource has been closed once.
C14_Witness ==
  /\ phase = "failed" /\ initialCap = 2 /\ nextId = 1
  /\ closeCalls[1] = 1

\* -------------------------------------------------------------------- C15
\* C15: a sweep pass never closes an entry when that leaves fewer than
\* maxIdle resources idle: when the pass closes the entry it holds, the
\* buffer still has at least maxIdle entries, however many resources are
\* borrowed.
C15_SweepKeepsIdleFloor ==
  [][(spc = "sw_judge" /\ swConn' # swConn) => Len(buf) >= maxIdle]_vars

\* -------------------------------------------------------------------- C16
\* C16: every sweep pass terminates, each entry being received at most once
\* in it.  Stated for the passes whose end no clock decides, those that
\* evict nothing because curConnCount is within maxIdle: a pass that has
\* begun is eventually back at the sleep of Check, unless curConnCount
\* has meanwhile risen above maxIdle.
C16_SweepPassTerminates ==
  (spc = "sw_select") ~> (spc = "sleep" \/ curConnCount > maxIdle)

\* -------------------------------------------------------------------- C17
\* C17: a Get in progress when Release swaps the references out never calls
\* through the cleared factory reference: no Get that has been admitted
\* finds c.factory nil, and the process does not panic on it.
C17_GetInProgressSeesRelease ==
  /\ panicked # "nil factory"
  /\ \A c \in Clients : ~(pc[c] = "get_factory" /\ factory = "nil")

\* -------------------------------------------------------------------- C18
\* C18: when Release runs while a sweep pass holds an entry it has received,
\* the sweeper does not send on the closed channel and does not block for
\* ever sending on the nil channel.
C18_SweepSurvivesRelease ==
  /\ panicked # "send on closed channel"
  /\ spc # "sw_blocked"

\* -------------------------------------------------------------------- C19
\* C19: on an open pool there is room in the idle buffer whenever a caller
\* holds a resource it got from Get, and whenever a sweep pass holds an
\* entry it has received: the Put of that resource, and the send that gives
\* the entry back, find the buffer not full, so Put never takes its
\* destroy-and-decrement fallback.
C19_BufferHasRoom ==
  (Open /\ (Held # {} \/ swConn # NoEntry)) => Len(buf) < maxActive

\* A Put of a borrowed resource has filled the buffer of two to capacity and
\* returned nil, beside a running sweeper.
C19_Witness ==
  \E c \in Clients :
    /\ call[c].op = "Put" /\ call[c].arg # NoConn /\ pc[c] = "idle"
    /\ ret[c] = [conn |-> NoConn, err |-> "nil"]
    /\ Open /\ maxActive = 2 /\ Len(buf) = 2 /\ checkInterval > 0
    /\ \A r \in Created : closeCalls[r] = 0

\* -------------------------------------------------------------------- C20
\* C20: with idleTimeout > 0, a Get that has received an entry older than
\* idleTimeout never returns it: the step that disposes of the entry closes
\* it, the next step of that Get decrements curConnCount by exactly one and
\* goes back to the select; and the close func is there to be called.
C20_ExpiredIsClosedNotReturned ==
  /\ [][\A c \in Clients :
          /\ (/\ pc[c] = "get_got" /\ pc'[c] # pc[c]
              /\ idleTimeout > 0 /\ Expired(wrapConn[c], idleTimeout)) =>
                /\ closeCalls' = Closed(wrapConn[c].conn)
                /\ pc'[c] = "get_expired"
                /\ held' = held /\ ret' = ret
          /\ (pc[c] = "get_expired" /\ pc'[c] # pc[c]) =>
                /\ curConnCount' = curConnCount - 1
                /\ pc'[c] = "get_select"
                /\ held' = held /\ ret' = ret /\ closeCalls' = closeCalls
     ]_vars
  /\ [](\A c \in Clients :
          (/\ pc[c] = "get_got"
           /\ idleTimeout > 0 /\ Expired(wrapConn[c], idleTimeout)) => CloseOk)

====
